---------------------------- MODULE Spec2Model ----------------------------
(***************************************************************************)
(* PeopleService of nwt-school-back-nestjs.                                *)
(*                                                                         *)
(* Three services of the repository are modelled, each as the file has it: *)
(*   - the in-memory service of src/unnamed/part_004: the list             *)
(*     this._people with findAll, findRandom, findOne and create (Spec);   *)
(*   - the service of src/src/people/people.service.ts: update and delete  *)
(*     act on the list this._people the constructor seeds, while findAll,  *)
(*     findRandom, findOne and create go to the document store through     *)
(*     PeopleDao (SpecService);                                            *)
(*   - the document-store service of src/unnamed/part_003 with the         *)
(*     PeopleDao of src/unnamed/part_002 (SpecDb).                         *)
(*                                                                         *)
(* Strings on which the code works character by character (names, ids,    *)
(* dates) are sequences of character codes; a photo URL is only ever       *)
(* copied and is a TLA+ string.  An absent value (undefined, null) is the  *)
(* empty sequence <<>> and a present value v is <<v>>.                     *)
(***************************************************************************)
EXTENDS Integers, Sequences, FiniteSets, TLC

VARIABLES
    _people,    \* this._people: the list of Person records
    now,        \* the clock: what new Date().getTime() returns
    pending,    \* Observables returned by a call and not yet subscribed
    last,       \* the last completed call: arguments, outcome, list before it
    db,         \* the document store: the documents of the collection
    dbLast,     \* part_003's service: the last completed call
    dbPending   \* calls of the DAO whose promise has not settled

vars == <<_people, now, pending, last, db, dbLast, dbPending>>

-----------------------------------------------------------------------------
(* Bounds of the model *)

MaxPeople == 5      \* most records this._people ever holds: create stops there
StartTime == 9      \* first value of the clock
ClockSpan == 1      \* the clock takes the values StartTime .. StartTime + ClockSpan
MaxPending == 1     \* most Observables waiting for their subscription
RandomSteps == 8    \* Math.random() takes the values k / RandomSteps, k < RandomSteps
MaxDocs == 2        \* most documents ever saved in the collection
MaxInFlight == 2    \* most store operations issued and not yet settled

-----------------------------------------------------------------------------
(* Strings *)

Undefined == <<>>
Some(v) == <<v>>

\* String.prototype.toLowerCase on the ASCII letters
LowerCode(c) == IF c \in 65..90 THEN c + 32 ELSE c
toLowerCase(s) == [i \in 1..Len(s) |-> LowerCode(s[i])]
UpperCode(c) == IF c \in 97..122 THEN c - 32 ELSE c
toUpperCase(s) == [i \in 1..Len(s) |-> UpperCode(s[i])]

\* `${n}`: the decimal digits of a non-negative integer
RECURSIVE Decimal(_)
Decimal(n) == IF n < 10 THEN <<48 + n>> ELSE Append(Decimal(n \div 10), 48 + (n % 10))

\* the number a string of decimal digits denotes
RECURSIVE ParseInt(_)
ParseInt(s) ==
    IF s = <<>> THEN 0
    ELSE 10 * ParseInt(SubSeq(s, 1, Len(s) - 1)) + (s[Len(s)] - 48)

\* String.prototype.split(sep) for a one-character separator
RECURSIVE split(_, _)
split(s, sep) ==
    IF \A i \in 1..Len(s) : s[i] # sep THEN <<s>>
    ELSE LET k == CHOOSE i \in 1..Len(s) :
                      s[i] = sep /\ \A j \in 1..(i - 1) : s[j] # sep
         IN  <<SubSeq(s, 1, k - 1)>> \o split(SubSeq(s, k + 1, Len(s)), sep)

Slash == 47

-----------------------------------------------------------------------------
(* Dates *)

\* days from 1970-01-01 to the civil date y-m-d (proleptic Gregorian)
DaysFromCivil(y, m, d) ==
    LET yy  == IF m <= 2 THEN y - 1 ELSE y
        era == yy \div 400
        yoe == yy - era * 400
        mp  == IF m > 2 THEN m - 3 ELSE m + 9
        doy == (153 * mp + 2) \div 5 + d - 1
        doe == yoe * 365 + yoe \div 4 - yoe \div 100 + doy
    IN  era * 146097 + doe - 719468

\* new Date("yyyy/mm/dd").getTime(), in seconds (the code's value is 1000 times
\* this one, beyond TLC's integers), for a process whose time zone is UTC
DateGetTime(s) ==
    LET p == split(s, Slash)
    IN  DaysFromCivil(ParseInt(p[1]), ParseInt(p[2]), ParseInt(p[3])) * 86400

\* PeopleService._parseDate: "dd/mm/yyyy" -> timestamp
\* (a variant that hands month and day to Date in the order it received them)
_parseDateUnswapped(date) ==
    LET dates == split(date, Slash)
    IN  DateGetTime(dates[3] \o <<Slash>> \o dates[1] \o <<Slash>> \o dates[2])

_parseDate(date) ==
    LET dates == split(date, Slash)
    IN  DateGetTime(dates[3] \o <<Slash>> \o dates[2] \o <<Slash>> \o dates[1])

\* "06/05/1985"
PlaceholderDate == <<48, 54, 47, 48, 53, 47, 49, 57, 56, 53>>
PlaceholderPhoto == "https://randomuser.me/api/portraits/lego/6.jpg"

-----------------------------------------------------------------------------
(* Persons, inputs and the seed *)

Jo  == <<74, 111>>          \* "Jo"
JO  == <<74, 79>>           \* "JO"
Al  == <<65, 108>>          \* "Al"
Bo  == <<66, 111>>          \* "Bo"
Cy  == <<67, 121>>          \* "Cy"
Ed  == <<69, 100>>          \* "Ed"
Doe == <<68, 111, 101>>     \* "Doe"
doe == <<100, 111, 101>>    \* "doe"

OtherPhoto == "https://randomuser.me/api/portraits/women/59.jpg"
OtherBirthDate == DaysFromCivil(1990, 12, 31) * 86400

\* CreatePersonDto: firstname and lastname are always there (the service
\* dereferences both), the other fields may be absent.  Callers of create send
\* the names of a seed record in another case, and two pairs of names the seed
\* does not have, one of them with a photo and a birth date.
Payloads ==
    { [firstname |-> JO, lastname |-> doe],
      [firstname |-> Al, lastname |-> Doe],
      [firstname |-> Ed, lastname |-> Doe, photo |-> OtherPhoto,
       birthDate |-> OtherBirthDate] }

\* UpdatePersonDto: callers of update send the names of the first seed record
\* in another case, and a pair of names the seed does not have, with a photo
\* and a birth date.
UpdatePayloads ==
    { [firstname |-> JO, lastname |-> doe],
      [firstname |-> Al, lastname |-> Doe, photo |-> OtherPhoto,
       birthDate |-> OtherBirthDate] }

\* PEOPLE of ../data/people: the static list the service is seeded from, with
\* birth dates written "dd/mm/yyyy"
SeedId == <<97, 49>>        \* "a1"
SecondId == <<97, 50>>      \* "a2"
ThirdId == <<97, 51>>       \* "a3"
PEOPLE ==
    << [id |-> SeedId, firstname |-> Jo, lastname |-> Doe,
        birthDate |-> <<50, 48, 47, 48, 49, 47, 49, 57, 56, 48>>,   \* "20/01/1980"
        photo |-> "https://randomuser.me/api/portraits/men/1.jpg"],
       [id |-> SecondId, firstname |-> Bo, lastname |-> Doe,
        birthDate |-> <<48, 50, 47, 49, 49, 47, 49, 57, 55, 53>>,   \* "02/11/1975"
        photo |-> "https://randomuser.me/api/portraits/men/2.jpg"],
       [id |-> ThirdId, firstname |-> Cy, lastname |-> Doe,
        birthDate |-> <<49, 53, 47, 48, 55, 47, 49, 57, 57, 49>>,   \* "15/07/1991"
        photo |-> "https://randomuser.me/api/portraits/men/3.jpg"] >>

Times == StartTime .. (StartTime + ClockSpan)

\* the ids callers of findOne ask for: an id of the seed and the ids the clock
\* can produce (each names no record until a create made it)
Ids == {SeedId} \cup {Decimal(t) : t \in Times}

-----------------------------------------------------------------------------
(* Results of a call: what the Observable delivers to its subscriber *)

Ok(v) == [kind |-> "ok", value |-> Some(v)]           \* next(v), complete
OkUndefined == [kind |-> "ok", value |-> Undefined]   \* next(undefined), complete
Fail(k) == [kind |-> k, value |-> Undefined]          \* error(new <k>Exception)

\* rxjs findIndex: the position of the first element passing the test, where
\* test[i] says whether the i-th element passes.  Positions count from 1 here
\* and 0 stands for rxjs's -1.
findIndex(arr, test) ==
    IF \E i \in 1..Len(arr) : test[i]
    THEN CHOOSE i \in 1..Len(arr) : test[i] /\ \A j \in 1..(i - 1) : ~test[j]
    ELSE 0

\* rxjs find: the first element passing the test, or undefined
find(arr, test) ==
    LET i == findIndex(arr, test) IN IF i = 0 THEN Undefined ELSE Some(arr[i])

\* the test _ => _.id === id on each element
IdIs(arr, id) == [i \in 1..Len(arr) |-> arr[i].id = id]

\* (a variant without the count: splice(index) removes up to the end)
spliceToEnd(a, index) ==
    IF index \in 1..Len(a) THEN SubSeq(a, 1, index - 1) ELSE a

\* Array.prototype.splice(index, 1) for a position counted from 1: a position
\* past the end removes nothing
splice(a, index) ==
    IF index \in 1..Len(a)
    THEN SubSeq(a, 1, index - 1) \o SubSeq(a, index + 1, Len(a))
    ELSE a

\* new PersonEntity(partial): Object.assign(this, partial)
PersonEntity(partial) == partial

\* An outcome: the result delivered, the list afterwards, and the id of the
\* record the call merged into or removed (if any).
Outcome(r, cur, t) == [result |-> r, people |-> cur, touched |-> t]

\* The record of a completed call: its arguments and result, the list when
\* the call was made (atCall) and when its Observable was subscribed (before),
\* and the id of the record it merged into or removed.
NoCall == [op |-> "none", id |-> Undefined, person |-> Undefined,
           result |-> OkUndefined, before |-> <<>>, atCall |-> <<>>,
           touched |-> Undefined]

\* constructor: [].concat(PEOPLE).map(person => ({...person, birthDate: parsed}))
InitPeople ==
    [i \in 1..Len(PEOPLE) |-> [birthDate |-> _parseDate(PEOPLE[i].birthDate)] @@ PEOPLE[i]]

InitMemory ==
    /\ _people = InitPeople
    /\ now = StartTime
    /\ pending = <<>>
    /\ last = NoCall

InitDbIdle == db = [docs |-> <<>>, made |-> 0] /\ dbLast = NoCall /\ dbPending = <<>>

\* a call returns its Observable, which is subscribed later
CallLater(call) ==
    /\ Len(pending) < MaxPending
    /\ pending' = Append(pending, call)
    /\ UNCHANGED <<_people, now, last, db, dbLast, dbPending>>

-----------------------------------------------------------------------------
(* In-memory service of src/unnamed/part_004: operations *)

\* Math.round(random * length) for random = k / RandomSteps, counted from 0
RandomIndex(k, length) == (2 * k * length + RandomSteps) \div (2 * RandomSteps)

\* findAll: the list, or undefined when it is empty
findAll(arr) == IF Len(arr) # 0 THEN Ok(arr) ELSE OkUndefined

\* findRandom: the element at the random index, or undefined when there is none
findRandom(arr, k) ==
    LET index == RandomIndex(k, Len(arr))
    IN  IF index + 1 \in 1..Len(arr) THEN Ok(arr[index + 1]) ELSE OkUndefined

\* findOne: the first element with that id, or NotFound
findOne(arr, id) ==
    LET found == find(arr, IdIs(arr, id))
    IN  IF found # Undefined THEN Ok(found[1]) ELSE Fail("NotFound")

\* _createId: the clock's reading in decimal
_createId(t) == Decimal(t)

\* (a variant in which the caller's fields win over the placeholders)
_addPersonCallerWins(person, t) ==
    person @@ [id |-> _createId(t),
               birthDate |-> _parseDate(PlaceholderDate),
               photo |-> PlaceholderPhoto]

\* _addPerson: the caller's fields, then id, birthDate and photo over them
_addPerson(person, t) ==
    [id |-> _createId(t),
     birthDate |-> _parseDate(PlaceholderDate),
     photo |-> PlaceholderPhoto] @@ person

\* the test of create's find
createSameName(p, person) ==
    /\ toLowerCase(p.lastname) = toLowerCase(person.lastname)
    /\ toLowerCase(p.firstname) = toLowerCase(person.firstname)

\* create, run at subscription: scan is the array from(this._people) was given
\* when create was called, cur is this._people now; _addPerson reads the clock
\* and replaces this._people by this._people.concat(record)
create(cur, scan, person, t) ==
    LET found == find(scan, [i \in 1..Len(scan) |-> createSameName(scan[i], person)])
    IN  IF found # Undefined
        THEN Outcome(Fail("Conflict"), cur, Undefined)
        ELSE LET rec == _addPerson(person, t)
             IN  Outcome(Ok(rec), Append(cur, rec), Undefined)

-----------------------------------------------------------------------------
(* In-memory service of src/unnamed/part_004: state and calls *)

\* A call builds its Observable at once.  No array is ever written in this
\* file (create replaces this._people by a longer copy), so what the call read
\* of this._people when it was made is the list of that moment: findAll's
\* of(this._people), findRandom's element and random index, and the array
\* findOne's and create's from(this._people) iterate when subscribed.
Call(op, id, person, k) ==
    [op |-> op, id |-> id, person |-> person, k |-> k, atCall |-> _people]

\* the subscription of a call's Observable; rest are the calls still waiting
Exec(call, rest) ==
    \E out \in {CASE call.op = "findAll" ->
                        Outcome(findAll(call.atCall), _people, Undefined)
                  [] call.op = "findRandom" ->
                        Outcome(findRandom(call.atCall, call.k), _people, Undefined)
                  [] call.op = "findOne" ->
                        Outcome(findOne(call.atCall, call.id[1]), _people, Undefined)
                  [] call.op = "create" ->
                        create(_people, call.atCall, call.person[1], now)} :
        /\ Len(out.people) <= MaxPeople
        /\ _people' = out.people
        /\ pending' = rest
        /\ last' = [op |-> call.op, id |-> call.id, person |-> call.person,
                    result |-> out.result, before |-> _people,
                    atCall |-> call.atCall, touched |-> out.touched]
        /\ UNCHANGED <<now, db, dbLast, dbPending>>

\* the clock advances
Tick ==
    /\ now < StartTime + ClockSpan
    /\ now' = now + 1
    /\ UNCHANGED <<_people, pending, last, db, dbLast, dbPending>>

(* Calls subscribed as soon as they are made *)

FindAll == Exec(Call("findAll", Undefined, Undefined, 0), pending)

FindRandom(k) == Exec(Call("findRandom", Undefined, Undefined, k), pending)

FindOne(id) == Exec(Call("findOne", Some(id), Undefined, 0), pending)

Create(person) == Exec(Call("create", Undefined, Some(person), 0), pending)

(* Calls whose Observable is subscribed later *)

Subscribe(i) ==
    /\ i \in 1..Len(pending)
    /\ Exec(pending[i], SubSeq(pending, 1, i - 1) \o SubSeq(pending, i + 1, Len(pending)))

\* the payloads of the creates that wait for their subscription
LaterPayloads == { [firstname |-> Al, lastname |-> Doe] }

Init == InitMemory /\ InitDbIdle

Next ==
    \/ FindAll
    \/ \E k \in 0..(RandomSteps - 1) : FindRandom(k)
    \/ \E id \in Ids : FindOne(id)
    \/ \E person \in Payloads : Create(person)
    \/ \E person \in LaterPayloads : CallLater(Call("create", Undefined, Some(person), 0))
    \/ \E id \in Ids : CallLater(Call("findOne", Some(id), Undefined, 0))
    \/ \E i \in 1..MaxPending : Subscribe(i)
    \/ Tick

\* the service of part_004: a caller subscribes the Observable a call returned
\* at once or at any later moment
Spec == Init /\ [][Next]_vars

-----------------------------------------------------------------------------
(* Service of src/src/people/people.service.ts: update and delete on the list *)

\* (a variant that takes an id written in another case for the record's)
_findPeopleIndexOfListAnyCase(arr, id) ==
    LET index == findIndex(arr, [i \in 1..Len(arr) |->
                                     toLowerCase(arr[i].id) = toLowerCase(id)])
    IN  IF index > 0 THEN Ok(index) ELSE Fail("NotFound")

\* _findPeopleIndexOfList: the position of the first element with that id
_findPeopleIndexOfList(arr, id) ==
    LET index == findIndex(arr, IdIs(arr, id))
    IN  IF index > 0 THEN Ok(index) ELSE Fail("NotFound")

\* (a variant that does not leave out the record being updated)
updateSameNameAnyId(p, id, person) ==
    /\ toLowerCase(p.lastname) = toLowerCase(person.lastname)
    /\ toLowerCase(p.firstname) = toLowerCase(person.firstname)

\* (a variant that leaves out the record by its id as written)
updateSameNameExactId(p, id, person) ==
    /\ toLowerCase(p.lastname) = toLowerCase(person.lastname)
    /\ toLowerCase(p.firstname) = toLowerCase(person.firstname)
    /\ p.id # id

\* the test of update's find
updateSameName(p, id, person) ==
    /\ toLowerCase(p.lastname) = toLowerCase(person.lastname)
    /\ toLowerCase(p.firstname) = toLowerCase(person.firstname)
    /\ toLowerCase(p.id) # toLowerCase(id)

\* update, run at subscription.  this._people is never assigned after the
\* constructor in this file, so from(this._people), built at the call, and
\* _findPeopleIndexOfList iterate the one array as it is when they run: cur.
\* Object.assign writes the payload's fields into the record found.
update(cur, id, person) ==
    LET found == find(cur, [i \in 1..Len(cur) |-> updateSameName(cur[i], id, person)])
        index == _findPeopleIndexOfList(cur, id)
    IN  IF found # Undefined
        THEN Outcome(Fail("Conflict"), cur, Undefined)
        ELSE IF index.kind # "ok"
        THEN Outcome(index, cur, Undefined)
        ELSE LET merged == person @@ cur[index.value[1]]
             IN  Outcome(Ok(PersonEntity(merged)),
                         [cur EXCEPT ![index.value[1]] = merged],
                         Some(cur[index.value[1]].id))

\* delete, run at subscription: findIndex and splice run one after the other
\* on the array as it is then
delete(cur, id) ==
    LET index == _findPeopleIndexOfList(cur, id)
    IN  IF index.kind # "ok"
        THEN Outcome(index, cur, Undefined)
        ELSE Outcome(OkUndefined, splice(cur, index.value[1]),
                     Some(cur[index.value[1]].id))

-----------------------------------------------------------------------------
(* Document-store variant: the store *)

\* What the store's promise settles to: resolved with a value (or with
\* null / nothing), or rejected with an error and its code (0: an error that
\* has no code or another code than the duplicate-key one).
Resolved(v) == [kind |-> "ok", value |-> v, code |-> 0]
Rejected(code) == [kind |-> "error", value |-> Undefined, code |-> code]

DuplicateKey == 11000

\* the outcome of a store operation: what it settles to, the documents after
\* it and the number of documents saved so far
Stored(r, docs, made) == [result |-> r, docs |-> docs, made |-> made]

\* the id the store gives the n-th document it saves: "d1", "d2", ...
DocId(n) == <<100>> \o Decimal(n)

\* the ids callers ask for in this variant, and the payloads they send
DocIds == {DocId(n) : n \in 1..MaxDocs}
DbPayloads == { [firstname |-> n[1], lastname |-> n[2]] : n \in {<<Jo, Doe>>, <<Al, Doe>>} }

\* the unique index on (firstname, lastname)
IndexClash(docs, person, id) ==
    \E i \in 1..Len(docs) :
        /\ docs[i].id # id
        /\ docs[i].firstname = person.firstname
        /\ docs[i].lastname = person.lastname

\* Model.find({}): fault says the store fails (no connection, ...)
StoreFind(d, fault) ==
    IF fault THEN Stored(Rejected(0), d.docs, d.made)
    ELSE Stored(Resolved(Some(d.docs)), d.docs, d.made)

\* Model.findById(id)
StoreFindById(d, id, fault) ==
    LET found == find(d.docs, IdIs(d.docs, id))
    IN  IF fault THEN Stored(Rejected(0), d.docs, d.made)
        ELSE Stored(Resolved(found), d.docs, d.made)

\* new Model(person).save()
StoreSave(d, person, fault) ==
    IF fault THEN Stored(Rejected(0), d.docs, d.made)
    ELSE IF IndexClash(d.docs, person, Undefined)
    THEN Stored(Rejected(DuplicateKey), d.docs, d.made)
    ELSE LET doc == [id |-> DocId(d.made + 1)] @@ person
         IN  Stored(Resolved(Some(doc)), Append(d.docs, doc), d.made + 1)

\* Model.findByIdAndUpdate(id, person, {new: true, runValidators: true})
StoreFindByIdAndUpdate(d, id, person, fault) ==
    LET index == findIndex(d.docs, IdIs(d.docs, id))
    IN  IF fault THEN Stored(Rejected(0), d.docs, d.made)
        ELSE IF index = 0 THEN Stored(Resolved(Undefined), d.docs, d.made)
        ELSE IF IndexClash(d.docs, person, id)
        THEN Stored(Rejected(DuplicateKey), d.docs, d.made)
        ELSE LET doc == person @@ d.docs[index]
             IN  Stored(Resolved(Some(doc)), [d.docs EXCEPT ![index] = doc], d.made)

\* Model.findByIdAndRemove(id)
StoreFindByIdAndRemove(d, id, fault) ==
    LET index == findIndex(d.docs, IdIs(d.docs, id))
    IN  IF fault THEN Stored(Rejected(0), d.docs, d.made)
        ELSE IF index = 0 THEN Stored(Resolved(Undefined), d.docs, d.made)
        ELSE Stored(Resolved(Some(d.docs[index])), splice(d.docs, index), d.made)

-----------------------------------------------------------------------------
(* Document-store variant: PeopleDao *)

\* filter(doc => !!doc), map(doc => doc.toJSON()), defaultIfEmpty(undefined):
\* a rejection goes through untouched
DaoOne(s) == s

\* PeopleDao.find: no documents is undefined
DaoFind(d, fault) ==
    LET s == StoreFind(d, fault)
    IN  IF s.result.kind = "ok" /\ Len(s.result.value[1]) = 0
        THEN Stored(Resolved(Undefined), s.docs, s.made)
        ELSE s

DaoFindById(d, id, fault) == DaoOne(StoreFindById(d, id, fault))

DaoSave(d, person, fault) == StoreSave(d, person, fault)

DaoFindByIdAndUpdate(d, id, person, fault) ==
    DaoOne(StoreFindByIdAndUpdate(d, id, person, fault))

DaoFindByIdAndRemove(d, id, fault) == DaoOne(StoreFindByIdAndRemove(d, id, fault))

-----------------------------------------------------------------------------
(* Document-store variant: PeopleService *)

\* an error nobody caught reaches the subscriber as it is
Escapes(s) == Fail("StorageError")

\* new PersonEntity(undefined) is an entity without fields
EntityOf(maybe) == IF maybe = Undefined THEN PersonEntity(<<>>) ELSE PersonEntity(maybe[1])

\* catchError of create and update
ConflictOrUnprocessable(e) ==
    IF e.code = DuplicateKey THEN Fail("Conflict") ELSE Fail("Unprocessable")

\* findAll: filter(_ => !!_), map to entities, defaultIfEmpty(undefined)
ServiceFindAllResult(s) ==
    IF s.result.kind = "error" THEN Escapes(s)
    ELSE IF s.result.value = Undefined THEN OkUndefined
    ELSE Ok([i \in 1..Len(s.result.value[1]) |-> PersonEntity(s.result.value[1][i])])

\* findRandom: the element at the random index made an entity
ServiceFindRandomResult(s, k) ==
    IF s.result.kind = "error" THEN Escapes(s)
    ELSE IF s.result.value = Undefined THEN OkUndefined
    ELSE LET docs == s.result.value[1]
             index == RandomIndex(k, Len(docs))
         IN  Ok(EntityOf(IF index + 1 \in 1..Len(docs)
                         THEN Some(docs[index + 1]) ELSE Undefined))

\* findOne and delete: every error is Unprocessable, nothing found is NotFound
ServiceFindOneResult(s) ==
    IF s.result.kind = "error" THEN Fail("Unprocessable")
    ELSE IF s.result.value # Undefined THEN Ok(PersonEntity(s.result.value[1]))
    ELSE Fail("NotFound")

ServiceDeleteResult(s) ==
    IF s.result.kind = "error" THEN Fail("Unprocessable")
    ELSE IF s.result.value # Undefined THEN OkUndefined
    ELSE Fail("NotFound")

\* create: a rejected save is Conflict or Unprocessable
ServiceCreateResult(s) ==
    IF s.result.kind = "error" THEN ConflictOrUnprocessable(s.result)
    ELSE Ok(PersonEntity(s.result.value[1]))

\* update: a rejection is Conflict or Unprocessable, nothing found is NotFound
ServiceUpdateResult(s) ==
    IF s.result.kind = "error" THEN ConflictOrUnprocessable(s.result)
    ELSE IF s.result.value # Undefined THEN Ok(PersonEntity(s.result.value[1]))
    ELSE Fail("NotFound")

\* _addPerson of this variant: the placeholders over the caller's fields
ServiceAddPerson(person) ==
    [birthDate |-> _parseDate(PlaceholderDate), photo |-> PlaceholderPhoto] @@ person

\* A service call is subscribed: the DAO issues the store operation and
\* from(promise) returns to the event loop.  The store does the operations in
\* the order they are issued: s is what this one made of the documents and
\* what it answers.  The call waits for its promise to settle; other calls
\* are subscribed and settle in the meantime, in any order.
DbCall(op, id, s) ==
    /\ Len(dbPending) < MaxInFlight
    /\ db' = [docs |-> s.docs, made |-> s.made]
    /\ dbPending' = Append(dbPending,
                           [op |-> op, id |-> id, store |-> s.result])
    /\ UNCHANGED <<_people, now, pending, last, dbLast>>

DbFindAll(fault) == DbCall("findAll", Undefined, DaoFind(db, fault))

DbFindRandom(fault) == DbCall("findRandom", Undefined, DaoFind(db, fault))

DbFindOne(id, fault) == DbCall("findOne", Some(id), DaoFindById(db, id, fault))

DbCreate(person, fault) ==
    LET s == DaoSave(db, ServiceAddPerson(person), fault)
    IN  /\ s.made <= MaxDocs
        /\ DbCall("create", Undefined, s)

DbUpdate(id, person, fault) ==
    DbCall("update", Some(id), DaoFindByIdAndUpdate(db, id, person, fault))

DbDelete(id, fault) ==
    DbCall("delete", Some(id), DaoFindByIdAndRemove(db, id, fault))

\* what the operators piped after the DAO make of the settled promise; k is
\* the value Math.random() gives findRandom's map
ServiceResult(call, k) ==
    LET s == [result |-> call.store]
    IN  CASE call.op = "findAll" -> ServiceFindAllResult(s)
          [] call.op = "findRandom" -> ServiceFindRandomResult(s, k)
          [] call.op = "findOne" -> ServiceFindOneResult(s)
          [] call.op = "create" -> ServiceCreateResult(s)
          [] call.op = "update" -> ServiceUpdateResult(s)
          [] call.op = "delete" -> ServiceDeleteResult(s)

\* The promise of a waiting call settles: catchError, map and mergeMap run and
\* the subscriber gets the result.  The store is as the calls issued in the
\* meantime left it.
DbSettle(i, k) ==
    /\ i \in 1..Len(dbPending)
    /\ dbPending[i].op # "findRandom" => k = 0
    /\ dbLast' = [op |-> dbPending[i].op, id |-> dbPending[i].id,
                  result |-> ServiceResult(dbPending[i], k),
                  store |-> dbPending[i].store]
    /\ dbPending' = SubSeq(dbPending, 1, i - 1) \o SubSeq(dbPending, i + 1, Len(dbPending))
    /\ UNCHANGED <<_people, now, pending, last, db>>

InitDb ==
    /\ InitMemory
    /\ db = [docs |-> <<>>, made |-> 0]
    /\ dbLast = [op |-> "none", id |-> Undefined,
                 result |-> OkUndefined, store |-> Resolved(Undefined)]
    /\ dbPending = <<>>

NextDb ==
    \/ \E fault \in BOOLEAN : DbFindAll(fault)
    \/ \E fault \in BOOLEAN : DbFindRandom(fault)
    \/ \E id \in DocIds, fault \in BOOLEAN : DbFindOne(id, fault)
    \/ \E person \in DbPayloads, fault \in BOOLEAN : DbCreate(person, fault)
    \/ \E id \in DocIds, person \in DbPayloads, fault \in BOOLEAN :
           DbUpdate(id, person, fault)
    \/ \E id \in DocIds, fault \in BOOLEAN : DbDelete(id, fault)
    \/ \E i \in 1..MaxInFlight, k \in 0..(RandomSteps - 1) : DbSettle(i, k)

SpecDb == InitDb /\ [][NextDb]_vars

-----------------------------------------------------------------------------
(* Service of src/src/people/people.service.ts: state and calls *)

\* A call of update or delete; atCall records the list when the call was made
\* (the Observable itself holds only the array, which it reads when it runs).
ServiceCall(op, id, person) ==
    [op |-> op, id |-> id, person |-> person, atCall |-> _people]

\* the subscription of the Observable of an update or a delete: everything
\* runs in one go; rest are the calls still waiting
ExecService(call, rest) ==
    \E out \in {CASE call.op = "update" ->
                        update(_people, call.id[1], call.person[1])
                  [] call.op = "delete" ->
                        delete(_people, call.id[1])} :
        /\ _people' = out.people
        /\ pending' = rest
        /\ last' = [op |-> call.op, id |-> call.id, person |-> call.person,
                    result |-> out.result, before |-> _people,
                    atCall |-> call.atCall, touched |-> out.touched]
        /\ UNCHANGED <<now, db, dbLast, dbPending>>

Update(id, person) == ExecService(ServiceCall("update", Some(id), Some(person)), pending)

Delete(id) == ExecService(ServiceCall("delete", Some(id), Undefined), pending)

SubscribeService(i) ==
    /\ i \in 1..Len(pending)
    /\ ExecService(pending[i],
                   SubSeq(pending, 1, i - 1) \o SubSeq(pending, i + 1, Len(pending)))

\* A store operation issued by findAll, findRandom, findOne or create
\* settles: the operators piped after the DAO run and the subscriber gets the
\* result; k is the value Math.random() gives findRandom's map.
ServiceSettle(i, k) ==
    /\ i \in 1..Len(dbPending)
    /\ dbPending[i].op # "findRandom" => k = 0
    /\ last' = [op |-> dbPending[i].op, id |-> dbPending[i].id, person |-> Undefined,
                result |-> ServiceResult(dbPending[i], k), before |-> _people,
                atCall |-> _people, touched |-> Undefined]
    /\ dbPending' = SubSeq(dbPending, 1, i - 1) \o SubSeq(dbPending, i + 1, Len(dbPending))
    /\ UNCHANGED <<_people, now, pending, db, dbLast>>

\* The ids callers of update and delete ask for: two ids of the seed, the
\* first in capitals, and the id the store gives the first document saved.
\* The calls that wait for their subscription ask for the ids of the seed and
\* send one payload.
ListIds == {SeedId, SecondId, toUpperCase(SeedId), DocId(1)}
LaterIds == {SeedId, SecondId}
LaterUpdates == { [firstname |-> JO, lastname |-> doe] }

\* what create saves in this specification
ServicePayloads == { [firstname |-> Al, lastname |-> Doe] }

\* a caller may make a call while fewer than MaxPending calls, of update and
\* delete not yet subscribed and of the others not yet settled, are under way
Room == Len(pending) + Len(dbPending) < MaxPending

\* findAll, findRandom, findOne and create go to the store through the DAO
\* (the code of part_003's service); update and delete act on this._people
NextService ==
    \/ \E id \in ListIds, person \in UpdatePayloads : Update(id, person)
    \/ \E id \in ListIds : Delete(id)
    \/ \E id \in LaterIds, person \in LaterUpdates :
           Room /\ CallLater(ServiceCall("update", Some(id), Some(person)))
    \/ \E id \in LaterIds : Room /\ CallLater(ServiceCall("delete", Some(id), Undefined))
    \/ \E i \in 1..MaxPending : SubscribeService(i)
    \/ Room /\ DbFindAll(FALSE)
    \/ Room /\ DbFindRandom(FALSE)
    \/ Room /\ DbFindOne(DocId(1), FALSE)
    \/ \E person \in ServicePayloads : Room /\ DbCreate(person, FALSE)
    \/ \E i \in 1..MaxPending, k \in 0..(RandomSteps - 1) : ServiceSettle(i, k)

\* constructor: this._people is seeded from PEOPLE; the collection behind the
\* DAO is empty and no call has been made
InitService == InitDb

SpecService == InitService /\ [][NextService]_vars

-----------------------------------------------------------------------------
(* Properties of the document-store variant (SpecDb) *)

\* C7: whatever the store does, the caller gets a result or one of NotFound,
\* Conflict and Unprocessable: a duplicate-key error is Conflict, any other
\* failure of the store is Unprocessable, no record for the id asked for is
\* NotFound, and no error of the store reaches the caller as it is.
C7_ErrorsTranslated ==
    /\ dbLast.result.kind \in {"ok", "NotFound", "Conflict", "Unprocessable"}
    /\ (dbLast.store.kind = "error" /\ dbLast.store.code = DuplicateKey)
           => dbLast.result.kind = "Conflict"
    /\ (dbLast.store.kind = "error" /\ dbLast.store.code # DuplicateKey)
           => dbLast.result.kind = "Unprocessable"
    /\ (dbLast.id # Undefined /\ dbLast.store.kind = "ok" /\ dbLast.store.value = Undefined)
           => dbLast.result.kind = "NotFound"

-----------------------------------------------------------------------------
(* Properties: common definitions *)

\* the list as callers see it
View == _people

\* two records or payloads name the same person, whatever the case of letters
SameNames(p, q) ==
    /\ toLowerCase(p.firstname) = toLowerCase(q.firstname)
    /\ toLowerCase(p.lastname) = toLowerCase(q.lastname)

HasId(arr, id) == \E i \in 1..Len(arr) : arr[i].id = id

\* the position of the first record of arr with this id (0: there is none)
FirstWithId(arr, id) ==
    IF HasId(arr, id)
    THEN CHOOSE i \in 1..Len(arr) :
             arr[i].id = id /\ \A j \in 1..(i - 1) : arr[j].id # id
    ELSE 0

\* 6 May 1985, the placeholder birth date read as day/month/year
SixthOfMay1985 == DaysFromCivil(1985, 5, 6) * 86400

\* the Observable of the last call was subscribed after the list had changed
Late == last.atCall # last.before

-----------------------------------------------------------------------------
(* Properties of the in-memory service of part_004 (Spec) *)

\* C1: no two records of the list have the same (firstname, lastname) pair,
\* compared case-insensitively, whatever calls were made.
C1_UniqueNames ==
    \A i, j \in 1..Len(View) : i # j => ~SameNames(View[i], View[j])

\* C2: create fails with Conflict whenever a record of the list has the
\* person's names (case-insensitively), and then nothing is appended; when
\* create succeeds no record of the list had these names before, and the
\* record returned carries them.
C2_CreateConflict ==
    last.op = "create" =>
        LET person == last.person[1]
            held == \E i \in 1..Len(last.before) : SameNames(last.before[i], person)
        IN  /\ held => last.result.kind = "Conflict" /\ View = last.before
            /\ last.result.kind = "ok" =>
                   /\ ~held
                   /\ last.result.value[1].firstname = person.firstname
                   /\ last.result.value[1].lastname = person.lastname

\* what create does decide on: the list as it was when create was called
C2_DecidedAtCall ==
    last.op = "create" =>
        LET person == last.person[1]
            held == \E i \in 1..Len(last.atCall) : SameNames(last.atCall[i], person)
        IN  /\ held <=> last.result.kind = "Conflict"
            /\ ~held <=> last.result.kind = "ok"
            /\ held => View = last.before

\* a create refused for names that differ from a record's only by case
C2_Refused ==
    /\ last.op = "create"
    /\ last.result.kind = "Conflict"
    /\ View = last.before
    /\ \E i \in 1..Len(last.before) :
           /\ SameNames(last.before[i], last.person[1])
           /\ last.before[i].firstname # last.person[1].firstname

\* findOne of part_004 with an id no record of the list has fails with
\* NotFound and leaves the list as it is
C3_FindOneAbsent ==
    (last.op = "findOne" /\ ~HasId(last.atCall, last.id[1])) =>
        last.result.kind = "NotFound" /\ View = last.before

\* C5: after a successful create, findOne with the id returned gives the record
\* returned.
C5_CreateThenFindOne ==
    (last.op = "create" /\ last.result.kind = "ok") =>
        findOne(View, last.result.value[1].id) = Ok(last.result.value[1])

\* C8: the record create stores and returns has the placeholder birth date
\* (6 May 1985) and photo and the caller's names, whatever the input carries.
C8_Placeholders ==
    (last.op = "create" /\ last.result.kind = "ok") =>
        LET rec == last.result.value[1]
        IN  /\ rec.birthDate = SixthOfMay1985
            /\ rec.photo = PlaceholderPhoto
            /\ rec.firstname = last.person[1].firstname
            /\ rec.lastname = last.person[1].lastname
            /\ Len(View) = Len(last.before) + 1
            /\ View[Len(View)] = rec

\* a successful create whose input carried a birth date and a photo of its own
C8_Witness ==
    /\ last.op = "create"
    /\ last.result.kind = "ok"
    /\ {"birthDate", "photo"} \subseteq DOMAIN last.person[1]
    /\ last.person[1].photo # PlaceholderPhoto
    /\ last.person[1].birthDate # SixthOfMay1985

\* C9: when the list is not empty findRandom returns one of its records, for
\* every value of random().
C9_RandomInList ==
    (last.op = "findRandom" /\ Len(last.atCall) > 0) =>
        /\ last.result.value # Undefined
        /\ \E i \in 1..Len(last.atCall) : last.result.value[1] = last.atCall[i]

\* C12: the records of the list have pairwise distinct ids, whatever creates
\* succeeded and whenever the clock advanced between them, so that an id names
\* at most one record.
C12_DistinctIds ==
    \A i, j \in 1..Len(View) : i # j => View[i].id # View[j].id

-----------------------------------------------------------------------------
(* Properties of the service of people.service.ts (SpecService) *)

\* the last call was update or delete with an id no record of the list has
AbsentId ==
    /\ last.op \in {"update", "delete"}
    /\ ~HasId(last.before, last.id[1])

NamesHeldByOther(arr, id, person) ==
    \E i \in 1..Len(arr) :
        SameNames(arr[i], person) /\ toLowerCase(arr[i].id) # toLowerCase(id)

C4_UpdateConflict ==
    (last.op = "update" /\ HasId(last.before, last.id[1])) =>
        LET id == last.id[1]
            person == last.person[1]
            clash == \E i \in 1..Len(last.before) :
                         last.before[i].id # id /\ SameNames(last.before[i], person)
            target == last.before[FirstWithId(last.before, id)]
        IN  IF clash THEN last.result.kind = "Conflict"
            ELSE /\ last.result.kind = "ok"
                 /\ last.result.value[1] =
                        [f \in DOMAIN target \cup DOMAIN person |->
                            IF f \in DOMAIN person THEN person[f] ELSE target[f]]

\* an update of a record with the very names it has, which succeeded
C4_Witness ==
    /\ last.op = "update"
    /\ last.result.kind = "ok"
    /\ Len(last.before) > 1
    /\ \E i \in 1..Len(last.before) :
           /\ last.before[i].id = last.id[1]
           /\ last.before[i].firstname = last.person[1].firstname
           /\ last.before[i].lastname = last.person[1].lastname

\* create returned a record with this id: the store has the document, and
\* the save that made it has settled
Returned(id) ==
    /\ HasId(db.docs, id)
    /\ \A i \in 1..Len(dbPending) :
           ~(/\ dbPending[i].op = "create"
             /\ dbPending[i].store.kind = "ok"
             /\ dbPending[i].store.value[1].id = id)

\* C6: once create has returned a record, update (with names no record of the
\* list has) and delete of the id returned do not fail with NotFound, and
\* after delete succeeded findOne of that id fails with NotFound.
C6_Lifecycle ==
    (last.op \in {"update", "delete"} /\ Returned(last.id[1])) =>
        /\ last.op = "delete" => last.result.kind # "NotFound"
        /\ (/\ last.op = "update"
            /\ \A i \in 1..Len(last.before) :
                   ~SameNames(last.before[i], last.person[1]))
              => last.result.kind # "NotFound"
        /\ (last.op = "delete" /\ last.result.kind = "ok")
              => ServiceFindOneResult(DaoFindById(db, last.id[1], FALSE)).kind
                     = "NotFound"

UpdateFrame ==
    LET k == FirstWithId(last.before, last.id[1])
        old == last.before[k]
        person == last.person[1]
    IN  /\ k \in 1..Len(last.before)
        /\ Len(View) = Len(last.before)
        /\ \A i \in 1..Len(View) : i # k => View[i] = last.before[i]
        /\ DOMAIN View[k] = DOMAIN old \cup DOMAIN person
        /\ View[k].id = old.id
        /\ \A f \in DOMAIN old \ DOMAIN person : View[k][f] = old[f]
        /\ \A f \in DOMAIN person : View[k][f] = person[f]

\* what a successful delete leaves when it removes the first record with the
\* id: a list one shorter, the records before that one and those after it
\* unchanged and in the same order
DeleteFrame ==
    LET k == FirstWithId(last.before, last.id[1])
    IN  /\ k \in 1..Len(last.before)
        /\ Len(View) = Len(last.before) - 1
        /\ \A i \in 1..(k - 1) : View[i] = last.before[i]
        /\ \A i \in k..Len(View) : View[i] = last.before[i + 1]

\* C11: every successful update or delete acts on the first record that has
\* the id and on no other: update changes only the payload's fields of it and
\* keeps its id, its position and the length of the list; delete makes the
\* list exactly one shorter; every other record keeps its fields and its
\* place among the others.
C11_FrameEffect ==
    (last.op \in {"update", "delete"} /\ last.result.kind = "ok") =>
        /\ last.op = "update" => UpdateFrame
        /\ last.op = "delete" => DeleteFrame

\* a delete that removed the second of three records and left the two
\* others, which differ, as they were and in the same order
C11_Witness ==
    /\ last.op = "delete"
    /\ last.result.kind = "ok"
    /\ Len(last.before) = 3
    /\ last.before[2].id = last.id[1]
    /\ last.before[1].id # last.id[1]
    /\ last.before[1] # last.before[3]
    /\ View = <<last.before[1], last.before[3]>>

\* an update of one of three records that changed a name of it and nothing
\* else
C11_UpdateReached ==
    /\ last.op = "update"
    /\ last.result.kind = "ok"
    /\ Len(last.before) = 3
    /\ \E k \in 1..3 :
           /\ last.before[k].id = last.id[1]
           /\ View[k] # last.before[k]
           /\ View[k].birthDate = last.before[k].birthDate
           /\ \A i \in 1..3 : i # k => View[i] = last.before[i]

\* an update subscribed after a delete moved its record: it merged into the
\* record asked for
C11_LateUpdateReached ==
    /\ last.op = "update"
    /\ last.result.kind = "ok"
    /\ Late
    /\ FirstWithId(last.atCall, last.id[1]) > FirstWithId(last.before, last.id[1])
    /\ last.touched = last.id

=============================================================================
